---- MODULE Spec2Model ----
(***************************************************************************)
(* The AEO readiness scanner's content-analysis engine (src/server.js).    *)
(*                                                                         *)
(* The source holds two iterations of the engine:                          *)
(*   - the lenient, page-type-aware engine analyzeHTML, served by          *)
(*     POST /api/analyze (server.js lines 354-786), and                    *)
(*   - the strict engine runAnalysis, served by POST /api/fetch            *)
(*     (server.js lines 13-338).                                           *)
(* Definitions of the strict engine carry the suffix V1.                   *)
(*                                                                         *)
(* Strings are sequences of atoms.  An atom is a chunk of text that no     *)
(* searched pattern splits: a single character in paragraph texts (so      *)
(* that Len is the character count), a word or separator in URLs,          *)
(* headings, titles and schema type names.                                 *)
(***************************************************************************)
EXTENDS Integers, Sequences, FiniteSets, TLC

VARIABLES page, route, resp

vars == <<page, route, resp>>

(***************************************************************************)
(* Bounds of the explored inputs.                                          *)
(***************************************************************************)
MaxPad == 301
MaxH2 == 4
MaxH3 == 2
MaxLists == 2
MaxLinks == 4
MaxBlocks == 2
ShortPad == 72

(***************************************************************************)
(* String primitives.                                                      *)
(***************************************************************************)

\* String.prototype.toLowerCase, atom by atom.
LowerAtom(a) ==
    CASE a = "A" -> "a"
      [] a = "I" -> "i"
      [] a = "S" -> "s"
      [] a = "R" -> "r"
      [] a = "E" -> "e"
      [] a = "What" -> "what"
      [] a = "How" -> "how"
      [] a = "WHY" -> "why"
      [] a = "Recipe" -> "recipe"
      [] a = "FAQ" -> "faq"
      [] a = "Blog" -> "blog"
      [] a = "Product" -> "product"
      [] a = "NOINDEX" -> "noindex"
      [] a = "Example.COM" -> "example.com"
      [] a = "HTTPS" -> "https"
      [] OTHER -> a

toLowerCase(s) == [i \in 1..Len(s) |-> LowerAtom(s[i])]

\* String.prototype.includes: pat occurs in s as a contiguous run.
includes(s, pat) ==
    \E i \in 0..(Len(s) - Len(pat)) :
        \A j \in 1..Len(pat) : s[i + j] = pat[j]

\* String.prototype.startsWith.
startsWith(s, pat) ==
    /\ Len(pat) <= Len(s)
    /\ \A j \in 1..Len(pat) : s[j] = pat[j]

IsSpace(a) == a = " "

RECURSIVE TrimStart(_)
TrimStart(s) ==
    IF s = <<>> THEN <<>>
    ELSE IF IsSpace(Head(s)) THEN TrimStart(Tail(s)) ELSE s

RECURSIVE TrimEnd(_)
TrimEnd(s) ==
    IF s = <<>> THEN <<>>
    ELSE IF IsSpace(s[Len(s)]) THEN TrimEnd(SubSeq(s, 1, Len(s) - 1)) ELSE s

\* String.prototype.trim.
trim(s) == TrimEnd(TrimStart(s))

(***************************************************************************)
(* Paragraph text: `core` followed by `pad` filler characters "x".  The    *)
(* filler is no whitespace and occurs in no searched pattern, so trimming  *)
(* and searching are decided by the core, the length by both.              *)
(***************************************************************************)

\* textContent.trim() of a paragraph: the leading whitespace goes, the
\* trailing whitespace of the core only when no filler follows it.
TrimText(t) ==
    IF t.pad = 0 THEN [core |-> trim(t.core), pad |-> 0]
    ELSE [core |-> TrimStart(t.core), pad |-> t.pad]

TextLength(t) == Len(t.core) + t.pad

TextLower(t) == [core |-> toLowerCase(t.core), pad |-> t.pad]

\* includes on a padded text, for patterns free of the filler character.
TextIncludes(t, pat) == includes(t.core, pat)

(***************************************************************************)
(* URLs.  A URL string is <<scheme, "://", host>> \o path \o query; the    *)
(* path and the query are atom sequences ("/", words, "?").                *)
(***************************************************************************)

UrlString(u) == <<u.scheme, "://", u.host>> \o u.path \o u.query

\* new URL(url).hostname: the host, lower-cased by the URL parser.
Hostname(u) == LowerAtom(u.host)

\* new URL(url).pathname: the path, "/" when the URL has none.
Pathname(u) == IF u.path = <<>> THEN <<"/">> ELSE u.path

\* The routes' guard: url.startsWith('http://') || url.startsWith('https://').
ValidUrl(u) ==
    \/ startsWith(UrlString(u), <<"http", "://">>)
    \/ startsWith(UrlString(u), <<"https", "://">>)

(***************************************************************************)
(* Page-type classification (analyzeHTML only).                            *)
(***************************************************************************)

\* The result of querySelector for an element the document lacks.
NoElement == [present |-> FALSE, text |-> <<>>]

Element(text) == [present |-> TRUE, text |-> text]

\* doc.querySelector(sel)?.textContent.toLowerCase() || ''
LowerTextOrEmpty(el) == IF el.present THEN toLowerCase(el.text) ELSE <<>>

IsHomepagePath(path) ==
    \/ path = <<"/">>
    \/ path = <<"/", "index.html">>
    \/ path = <<"/", "home">>

IsArticleUrl(urlLower) ==
    \/ includes(urlLower, <<"/", "blog", "/">>)
    \/ includes(urlLower, <<"/", "article", "/">>)
    \/ includes(urlLower, <<"/", "post", "/">>)
    \/ includes(urlLower, <<"/", "news", "/">>)

IsRecipePage(urlLower, title, h1) ==
    \/ includes(urlLower, <<"/", "recipe">>)
    \/ includes(title, <<"recipe">>)
    \/ includes(h1, <<"recipe">>)

IsProductPage(urlLower, doc) ==
    \/ includes(urlLower, <<"/", "product">>)
    \/ includes(urlLower, <<"/", "shop", "/">>)
    \/ doc.productItem

IsFaqPage(urlLower, title, h1) ==
    \/ includes(urlLower, <<"/", "faq">>)
    \/ includes(title, <<"faq">>)
    \/ includes(h1, <<"faq">>)

detectPageTypeRecipeLast(doc, url) ==
    LET urlLower == toLowerCase(UrlString(url))
        title == LowerTextOrEmpty(doc.title)
        h1 == LowerTextOrEmpty(doc.h1)
        path == Pathname(url)
    IN  IF IsHomepagePath(path) THEN "homepage"
        ELSE IF IsArticleUrl(urlLower) THEN "article"
        ELSE IF IsProductPage(urlLower, doc) THEN "product"
        ELSE IF IsRecipePage(urlLower, title, h1) THEN "recipe"
        ELSE IF IsFaqPage(urlLower, title, h1) THEN "faq"
        ELSE "content"

detectPageType(doc, url) ==
    LET urlLower == toLowerCase(UrlString(url))
        title == LowerTextOrEmpty(doc.title)
        h1 == LowerTextOrEmpty(doc.h1)
        path == Pathname(url)
    IN  IF IsHomepagePath(path) THEN "homepage"
        ELSE IF IsArticleUrl(urlLower) THEN "article"
        ELSE IF IsRecipePage(urlLower, title, h1) THEN "recipe"
        ELSE IF IsProductPage(urlLower, doc) THEN "product"
        ELSE IF IsFaqPage(urlLower, title, h1) THEN "faq"
        ELSE "content"

(***************************************************************************)
(* Check results.  A part is what a stretch of a check adds to the         *)
(* check's points, details and recommendations.                            *)
(***************************************************************************)

Part(pts, dets, recs) ==
    [points |-> pts, details |-> dets, recommendations |-> recs]

NoPart == Part(0, <<>>, <<>>)

Plus(a, b) ==
    Part(a.points + b.points, a.details \o b.details,
         a.recommendations \o b.recommendations)

(***************************************************************************)
(* The document body around the first H1: `before` holds the paragraphs    *)
(* that precede the H1 in document order (all paragraphs when there is no  *)
(* H1), `after` the H1's following element siblings, in order.             *)
(***************************************************************************)

Paragraphs(els) == SelectSeq(els, LAMBDA e : e.tag = "P")

\* doc.querySelectorAll('p')
AllPs(doc) == Paragraphs(doc.before) \o Paragraphs(doc.after)

\* The walk over h1.nextElementSibling: the first sibling that is a P with
\* non-empty trimmed text.
RECURSIVE SiblingWalk(_)
SiblingWalk(els) ==
    IF els = <<>> THEN NoElement
    ELSE IF Head(els).tag = "P" /\ TextLength(TrimText(Head(els).text)) > 0
         THEN Element(Head(els).text)
         ELSE SiblingWalk(Tail(els))

FindDefParagraph(doc) ==
    LET bySibling == SiblingWalk(doc.after)
        allPs == AllPs(doc)
    IN  IF ~bySibling.present /\ Len(allPs) > 0
        THEN Element(allPs[1].text)
        ELSE bySibling

FindDefParagraphV1(doc) ==
    LET bySibling == SiblingWalk(doc.after)
        allPs == AllPs(doc)
    IN  IF ~bySibling.present /\ Len(allPs) > 0
        THEN Element(allPs[1].text)
        ELSE bySibling

\* The H1 reads as a question.
IsQuestion(h1Text) ==
    \/ includes(h1Text, <<"what">>)
    \/ includes(h1Text, <<"how">>)
    \/ includes(h1Text, <<"why">>)
    \/ includes(h1Text, <<"?">>)

(***************************************************************************)
(* AnswerExtraction, lenient engine.                                       *)
(***************************************************************************)

ShortThreshold == 250

\* hasIsA: the lower-cased definition holds a space-delimited pattern.
HasIsA(defLower) ==
    \/ TextIncludes(defLower, <<" ", "i", "s", " ", "a", " ">>)
    \/ TextIncludes(defLower, <<" ", "a", "r", "e", " ">>)
    \/ TextIncludes(defLower,
           <<" ", "r", "e", "f", "e", "r", "s", " ", "t", "o", " ">>)
    \/ TextIncludes(defLower, <<" ", "m", "e", "a", "n", "s", " ">>)

DefinitionScoreStrictBound(rawText) ==
    LET defText == TrimText(rawText)
        defLower == TextLower(defText)
        L == TextLength(defText)
    IN  IF L > 0 /\ L < ShortThreshold
        THEN Plus(Part(10, <<"Definition paragraph found">>, <<>>),
                  IF HasIsA(defLower)
                  THEN Part(5, <<"Definition uses clear explanatory pattern">>, <<>>)
                  ELSE NoPart)
        ELSE IF L >= ShortThreshold
        THEN Part(7, <<"Definition paragraph present but could be more concise">>,
                  <<"Consider making the opening definition more concise (under 250 characters)">>)
        ELSE NoPart

DefinitionScoreNoBonus(rawText) ==
    LET defText == TrimText(rawText)
        L == TextLength(defText)
    IN  IF L > 0 /\ L <= ShortThreshold
        THEN Part(10, <<"Definition paragraph found">>, <<>>)
        ELSE IF L > ShortThreshold
        THEN Part(7, <<"Definition paragraph present but could be more concise">>,
                  <<"Consider making the opening definition more concise (under 250 characters)">>)
        ELSE NoPart

\* The scoring of a definition paragraph that was found.
DefinitionScore(rawText) ==
    LET defText == TrimText(rawText)
        defLower == TextLower(defText)
        L == TextLength(defText)
    IN  IF L > 0 /\ L <= ShortThreshold
        THEN Plus(Part(10, <<"Definition paragraph found">>, <<>>),
                  IF HasIsA(defLower)
                  THEN Part(5, <<"Definition uses clear explanatory pattern">>, <<>>)
                  ELSE NoPart)
        ELSE IF L > ShortThreshold
        THEN Part(7, <<"Definition paragraph present but could be more concise">>,
                  <<"Consider making the opening definition more concise (under 250 characters)">>)
        ELSE NoPart

checkAnswerExtraction(doc) ==
    LET h1 == doc.h1
        heading ==
            IF h1.present
            THEN Plus(Part(10, <<"H1 found">>, <<>>),
                      IF IsQuestion(toLowerCase(h1.text))
                      THEN Part(5, <<"H1 is formatted as a question">>, <<>>)
                      ELSE Part(0, <<"H1 could be formatted as a question for better AEO">>, <<>>))
            ELSE Part(0, <<>>, <<"Add a clear H1 heading to your page">>)
        defParagraph == FindDefParagraph(doc)
        definition ==
            IF ~h1.present THEN NoPart
            ELSE IF defParagraph.present THEN DefinitionScore(defParagraph.text)
            ELSE Part(0, <<>>,
                      <<"Add a clear definition paragraph near the top of the content">>)
        total == Plus(heading, definition)
    IN  [title |-> "Answer Extraction",
         points |-> total.points,
         maxPoints |-> 30,
         pass |-> total.points >= 15,
         details |-> total.details,
         recommendations |-> total.recommendations]

(***************************************************************************)
(* AnswerExtraction, strict engine.                                        *)
(***************************************************************************)

ShortThresholdV1 == 150
LongThresholdV1 == 300

DefinitionScoreV1(rawText) ==
    LET L == TextLength(TrimText(rawText))
    IN  IF L > 0 /\ L <= ShortThresholdV1
        THEN Part(12, <<"Concise definition found">>, <<>>)
        ELSE IF L > ShortThresholdV1 /\ L <= LongThresholdV1
        THEN Part(6, <<>>,
                  <<"Shorten the opening definition to under 150 characters">>)
        ELSE Part(3, <<>>,
                  <<"Add a concise definition paragraph directly after the H1">>)

checkAnswerExtractionV1(doc) ==
    LET h1 == doc.h1
        heading ==
            IF h1.present
            THEN Plus(Part(8, <<"H1 found">>, <<>>),
                      IF IsQuestion(toLowerCase(h1.text))
                      THEN Part(4, <<"H1 is formatted as a question">>, <<>>)
                      ELSE NoPart)
            ELSE Part(0, <<>>,
                      <<"Add a clear H1 heading, ideally formatted as a question">>)
        defParagraph == FindDefParagraphV1(doc)
        definition ==
            IF ~h1.present THEN NoPart
            ELSE IF defParagraph.present THEN DefinitionScoreV1(defParagraph.text)
            ELSE Part(0, <<>>,
                      <<"Add a concise definition paragraph directly after the H1">>)
        total == Plus(heading, definition)
    IN  [title |-> "Answer Extraction",
         points |-> total.points,
         maxPoints |-> 30,
         pass |-> total.points >= 18,
         details |-> total.details,
         recommendations |-> total.recommendations]

(***************************************************************************)
(* ContentStructure.  The document carries the number of its H2, H3 and    *)
(* list (ul, ol) elements.                                                 *)
(***************************************************************************)

HeadingScoreFourSections(h2) ==
    IF h2 >= 4 THEN Part(15, <<"Good heading structure">>, <<>>)
    ELSE IF h2 >= 2 THEN Part(10, <<"Adequate heading structure">>, <<>>)
    ELSE IF h2 = 1
    THEN Part(5, <<>>,
              <<"Add more H2 sections to improve content structure (aim for 3+)">>)
    ELSE Part(0, <<>>,
              <<"Break content into clear H2 sections for better AI comprehension">>)

HeadingScore(h2) ==
    IF h2 >= 3 THEN Part(15, <<"Good heading structure">>, <<>>)
    ELSE IF h2 >= 2 THEN Part(10, <<"Adequate heading structure">>, <<>>)
    ELSE IF h2 = 1
    THEN Part(5, <<>>,
              <<"Add more H2 sections to improve content structure (aim for 3+)">>)
    ELSE Part(0, <<>>,
              <<"Break content into clear H2 sections for better AI comprehension">>)

SubheadingScore(h3) ==
    IF h3 >= 2 THEN Part(2, <<"Subsections present">>, <<>>) ELSE NoPart

ListScore(lists) ==
    IF lists >= 2 THEN Part(8, <<"Lists present">>, <<>>)
    ELSE IF lists = 1
    THEN Part(5, <<"List present (consider adding more for better structure)">>, <<>>)
    ELSE Part(0, <<>>,
              <<"Add bulleted or numbered lists to improve scanability">>)

checkContentStructure(doc) ==
    LET total == Plus(Plus(HeadingScore(doc.h2s), SubheadingScore(doc.h3s)),
                      ListScore(doc.lists))
    IN  [title |-> "Content Structure",
         points |-> total.points,
         maxPoints |-> 25,
         pass |-> total.points >= 13,
         details |-> total.details,
         recommendations |-> total.recommendations]

HeadingScoreV1(h2) ==
    IF h2 >= 4 THEN Part(12, <<>>, <<>>)
    ELSE IF h2 >= 2 THEN Part(6, <<>>, <<"Add more H2 sections">>)
    ELSE Part(0, <<>>, <<"Break content into H2 sections">>)

checkContentStructureV1(doc) ==
    LET total ==
            Plus(Plus(HeadingScoreV1(doc.h2s),
                      IF doc.h3s >= 2 THEN Part(5, <<>>, <<>>) ELSE NoPart),
                 IF doc.lists >= 2 THEN Part(8, <<>>, <<>>) ELSE NoPart)
    IN  [title |-> "Content Structure",
         points |-> total.points,
         maxPoints |-> 25,
         pass |-> total.points >= 15,
         details |-> total.details,
         recommendations |-> total.recommendations]

(***************************************************************************)
(* JSON values of the structured-data blocks.                              *)
(***************************************************************************)

JUndefined == [k |-> "undefined", v |-> <<>>]
JNull == [k |-> "null", v |-> <<>>]
JStr(s) == [k |-> "str", v |-> s]
JNum(n) == [k |-> "num", v |-> <<n>>]      \* n is the numeral, "0" or "5"
JBool(b) == [k |-> "bool", v |-> <<b>>]    \* b is "true" or "false"
JObj == [k |-> "obj", v |-> <<>>]
JArr(items) == [k |-> "arr", v |-> items]

\* JavaScript truthiness of a JSON value.
Truthy(x) ==
    CASE x.k = "undefined" -> FALSE
      [] x.k = "null" -> FALSE
      [] x.k = "str" -> x.v # <<>>
      [] x.k = "num" -> x.v # <<"0">>
      [] x.k = "bool" -> x.v = <<"true">>
      [] OTHER -> TRUE

\* Set.prototype.add on an insertion-ordered set: primitives are added once,
\* every parsed object or array is a value of its own.
SetAdd(set, x) ==
    IF x.k \notin {"obj", "arr"}
       /\ \E i \in 1..Len(set) : set[i].k = x.k /\ set[i].v = x.v
    THEN set
    ELSE Append(set, x)

RECURSIVE SetAddAll(_, _)
SetAddAll(set, items) ==
    IF items = <<>> THEN set
    ELSE SetAddAll(SetAdd(set, Head(items)), Tail(items))

\* A script block: its text fails to parse (kind "invalid") or parses to
\* null, a scalar, an array, or an object whose "@type" member is `type`
\* (JUndefined when the object has none).
Block(kind, type) == [kind |-> kind, type |-> type]

\* The body of the try of one block: what it leaves in `schemas`.  A parse
\* error and the read of a member of null throw inside the try and are caught.
CollectBlock(schemas, b) ==
    IF b.kind # "object" THEN schemas
    ELSE IF ~Truthy(b.type) THEN schemas
    ELSE IF b.type.k = "arr" THEN SetAddAll(schemas, b.type.v)
    ELSE SetAdd(schemas, b.type)

RECURSIVE CollectFrom(_, _)
CollectFrom(schemas, blocks) ==
    IF blocks = <<>> THEN schemas
    ELSE CollectFrom(CollectBlock(schemas, Head(blocks)), Tail(blocks))

\* schemaArray = Array.from(schemas)
CollectSchemas(doc) == CollectFrom(<<>>, doc.scripts)

\* s.includes(pat) for a member s of schemaArray: a substring test on a
\* string, a membership test on an array, a TypeError on anything else.
\* The result is "true", "false" or "throw".
TypeIncludes(s, pat) ==
    CASE s.k = "str" -> IF includes(s.v, pat) THEN "true" ELSE "false"
      [] s.k = "arr" ->
            IF \E i \in 1..Len(s.v) : s.v[i].k = "str" /\ s.v[i].v = pat
            THEN "true" ELSE "false"
      [] OTHER -> "throw"

\* a || b on such results, b evaluated only when a is false.
OrElse(a, b) == IF a = "false" THEN b ELSE a

\* s === 'literal'
StrictEquals(s, str) == IF s.k = "str" /\ s.v = str THEN "true" ELSE "false"

\* Array.prototype.some: the members are tried in order and the first one
\* whose test does not return false decides the result.
\* `tests` holds what the test returns for each member.
Some(tests) ==
    LET hits == {i \in 1..Len(tests) : tests[i] # "false"}
    IN  IF hits = {} THEN "false"
        ELSE tests[CHOOSE i \in hits : \A j \in hits : i <= j]

\* The results of the callback s => s.includes(pat) over the members of arr.
IncludesTests(arr, pat) == [i \in 1..Len(arr) |-> TypeIncludes(arr[i], pat)]

\* s => s.includes('Organization') || s.includes('WebSite')
HomepageTests(arr) ==
    [i \in 1..Len(arr) |->
        OrElse(TypeIncludes(arr[i], <<"Organization">>),
               TypeIncludes(arr[i], <<"WebSite">>))]

\* s => s.includes('Article') || s === 'BlogPosting' || s === 'NewsArticle'
ArticleTests(arr) ==
    [i \in 1..Len(arr) |->
        OrElse(TypeIncludes(arr[i], <<"Article">>),
        OrElse(StrictEquals(arr[i], <<"Blog", "Posting">>),
               StrictEquals(arr[i], <<"News", "Article">>)))]

Ok(val) == [ok |-> TRUE, val |-> val]
Threw == [ok |-> FALSE, val |-> "TypeError"]

(***************************************************************************)
(* SchemaMarkup, lenient engine.  Each page-type branch yields its part,   *)
(* or Threw when a test of schemaArray throws outside any try.             *)
(***************************************************************************)

HomepageSchemaRequired(schemaArray) ==
    LET found == Some(HomepageTests(schemaArray))
    IN  IF found = "throw" THEN Threw
        ELSE IF found = "true"
        THEN Ok(Part(20, <<"Organization/Website schema found">>, <<>>))
        ELSE Ok(Part(5, <<>>, <<"Add Organization or WebSite schema">>))

HomepageSchema(schemaArray) ==
    LET found == Some(HomepageTests(schemaArray))
    IN  IF found = "throw" THEN Threw
        ELSE IF found = "true"
        THEN Ok(Part(20, <<"Organization/Website schema found">>, <<>>))
        ELSE Ok(Part(15, <<"Homepage - Organization schema recommended but optional">>,
                     <<>>))

ArticleSchema(schemaArray) ==
    LET article == Some(ArticleTests(schemaArray))
        faq == Some(IncludesTests(schemaArray, <<"FAQ">>))
    IN  IF article = "throw" \/ faq = "throw" THEN Threw
        ELSE Ok(Plus(IF article = "true"
                     THEN Part(15, <<"Article schema found">>, <<>>)
                     ELSE Part(5, <<>>,
                               <<"Add Article or BlogPosting schema for better AEO">>),
                     IF faq = "true"
                     THEN Part(10, <<"FAQ schema found">>, <<>>)
                     ELSE Part(5, <<>>, <<>>)))

RecipeSchema(schemaArray) ==
    LET found == Some(IncludesTests(schemaArray, <<"Recipe">>))
    IN  IF found = "throw" THEN Threw
        ELSE IF found = "true"
        THEN Ok(Part(20, <<"Recipe schema found">>, <<>>))
        ELSE Ok(Part(0, <<>>, <<"Add Recipe schema for recipe content">>))

ProductSchema(schemaArray) ==
    LET found == Some(IncludesTests(schemaArray, <<"Product">>))
    IN  IF found = "throw" THEN Threw
        ELSE IF found = "true"
        THEN Ok(Part(20, <<"Product schema found">>, <<>>))
        ELSE Ok(Part(5, <<>>, <<"Add Product schema for better visibility">>))

GenericSchema(schemaArray) ==
    IF Len(schemaArray) > 0
    THEN Ok(Part(20, <<"Structured data found">>, <<>>))
    ELSE Ok(Part(10, <<>>,
                 <<"Consider adding relevant schema markup (Article, HowTo, FAQ, etc.)">>))

TopUpWithoutFloor(schemaArray, points) ==
    IF Len(schemaArray) > 0 THEN points + 5 ELSE points

TopUpNever(schemaArray, points) == points

\* "Always give bonus points for having any schema".
TopUp(schemaArray, points) ==
    IF Len(schemaArray) > 0 /\ points < 15 THEN points + 5 ELSE points

checkSchemaPresence(doc, pageType) ==
    LET schemaArray == CollectSchemas(doc)
        branch ==
            CASE pageType = "homepage" -> HomepageSchema(schemaArray)
              [] pageType = "article" -> ArticleSchema(schemaArray)
              [] pageType = "recipe" -> RecipeSchema(schemaArray)
              [] pageType = "product" -> ProductSchema(schemaArray)
              [] OTHER -> GenericSchema(schemaArray)
    IN  IF ~branch.ok THEN Threw
        ELSE LET points == TopUp(schemaArray, branch.val.points)
             IN  Ok([title |-> "Schema Markup",
                     points |-> points,
                     maxPoints |-> 25,
                     pass |-> points >= 12,
                     details |-> branch.val.details,
                     recommendations |-> branch.val.recommendations,
                     isOptional |-> pageType = "homepage"])

(***************************************************************************)
(* SchemaMarkup, strict engine.                                            *)
(***************************************************************************)

checkSchemaPresenceV1(doc) ==
    LET schemaArray == CollectSchemas(doc)
        article == Some(IncludesTests(schemaArray, <<"Article">>))
        faq == Some(IncludesTests(schemaArray, <<"FAQ">>))
        total ==
            Plus(Plus(IF article = "true" THEN Part(10, <<>>, <<>>)
                      ELSE Part(0, <<>>, <<"Add Article or BlogPosting schema">>),
                      IF faq = "true" THEN Part(8, <<>>, <<>>)
                      ELSE Part(0, <<>>, <<"Add FAQ schema">>)),
                 IF Len(schemaArray) > 0 THEN Part(0, <<"Schemas found">>, <<>>)
                 ELSE Part(0, <<"No schema markup detected">>, <<>>))
    IN  IF article = "throw" \/ faq = "throw" THEN Threw
        ELSE Ok([title |-> "Schema Markup",
                 points |-> total.points,
                 maxPoints |-> 25,
                 pass |-> total.points >= 10,
                 details |-> total.details,
                 recommendations |-> total.recommendations])

(***************************************************************************)
(* InternalLinking.  An href is empty, a relative reference, an absolute   *)
(* or scheme-relative URL with a host of its own, a mailto: URL (whose     *)
(* hostname is empty), or a string the URL parser rejects.                 *)
(***************************************************************************)

Href(kind, host) == [kind |-> kind, host |-> host]

\* new URL(href, url).hostname, or "throw".
ResolvedHostname(href, url) ==
    CASE href.kind = "malformed" -> "throw"
      [] href.kind = "absolute" -> LowerAtom(href.host)
      [] href.kind = "mailto" -> ""
      [] OTHER -> Hostname(url)

\* The body of links.forEach: whether the link is pushed to internalLinks.
IsInternal(href, url) ==
    /\ href.kind # "empty"
    /\ ResolvedHostname(href, url) = Hostname(url)

IsInternalV1(href, url) ==
    ResolvedHostname(href, url) = Hostname(url)

InternalLinks(doc, url) ==
    SelectSeq(doc.links, LAMBDA href : IsInternal(href, url))

InternalLinksV1(doc, url) ==
    SelectSeq(doc.links, LAMBDA href : IsInternalV1(href, url))

LinkScoreTwoIsEnough(n) ==
    IF n >= 2 THEN Part(10, <<"Good internal linking">>, <<>>)
    ELSE IF n >= 1
    THEN Part(7, <<"Internal links present">>,
              <<"Consider adding more internal links to related content (aim for 3+)">>)
    ELSE Part(3, <<>>,
              <<"Add internal links to related content for better topic clustering">>)

LinkScore(n) ==
    IF n >= 3 THEN Part(10, <<"Good internal linking">>, <<>>)
    ELSE IF n >= 1
    THEN Part(7, <<"Internal links present">>,
              <<"Consider adding more internal links to related content (aim for 3+)">>)
    ELSE Part(3, <<>>,
              <<"Add internal links to related content for better topic clustering">>)

checkInternalLinking(doc, url) ==
    LET total == LinkScore(Len(InternalLinks(doc, url)))
    IN  [title |-> "Internal Linking",
         points |-> total.points,
         maxPoints |-> 10,
         pass |-> total.points >= 7,
         details |-> total.details,
         recommendations |-> total.recommendations]

LinkScoreV1(n) ==
    IF n >= 3 THEN Part(6, <<>>, <<>>)
    ELSE IF n > 0 THEN Part(3, <<>>, <<"Add more internal links">>)
    ELSE Part(0, <<>>, <<"Add internal links">>)

checkInternalLinkingV1(doc, url) ==
    LET total == LinkScoreV1(Len(InternalLinksV1(doc, url)))
    IN  [title |-> "Internal Linking",
         points |-> total.points,
         maxPoints |-> 10,
         pass |-> total.points >= 6,
         details |-> total.details,
         recommendations |-> total.recommendations]

(***************************************************************************)
(* Crawlability.  The robots meta tag, the title and the x-robots-tag      *)
(* header are optional texts; statusCode is the status the fetch received. *)
(***************************************************************************)

\* title && title.textContent.trim()
HasTitle(doc) == doc.title.present /\ trim(doc.title.text) # <<>>

StatusScore(statusCode) ==
    IF statusCode = 200
    THEN Part(5, <<"Page loads successfully (200 OK)">>, <<>>)
    ELSE Part(0, <<>>,
              <<"Fix HTTP status code (currently " \o ToString(statusCode) \o ")">>)

CanonicalScore(doc) ==
    IF doc.canonical THEN Part(3, <<"Canonical tag present">>, <<>>)
    ELSE Part(1, <<>>, <<"Add a canonical tag to specify preferred URL">>)

TitleScore(doc) ==
    IF HasTitle(doc) THEN Part(2, <<"Title tag present">>, <<>>)
    ELSE Part(0, <<>>, <<"Add a descriptive title tag">>)

checkCrawlability(doc, statusCode, headers) ==
    LET total == Plus(Plus(StatusScore(statusCode), CanonicalScore(doc)),
                      TitleScore(doc))
    IN  [title |-> "Crawlability",
         points |-> total.points,
         maxPoints |-> 10,
         pass |-> total.points >= 6,
         details |-> total.details,
         recommendations |-> total.recommendations]

\* robotsMeta && robotsMeta.content.toLowerCase().includes("noindex")
MetaNoindex(doc) ==
    doc.robots.present /\ includes(toLowerCase(doc.robots.text), <<"noindex">>)

\* headers["x-robots-tag"] && headers["x-robots-tag"].toLowerCase().includes("noindex")
HeaderNoindex(headers) ==
    /\ headers.xRobotsTag.present
    /\ headers.xRobotsTag.text # <<>>
    /\ includes(toLowerCase(headers.xRobotsTag.text), <<"noindex">>)

checkCrawlabilityV1(doc, statusCode, headers) ==
    LET status == IF statusCode = 200 THEN Part(3, <<>>, <<>>)
                  ELSE Part(0, <<>>, <<"Fix HTTP status code">>)
        index == IF ~MetaNoindex(doc) /\ ~HeaderNoindex(headers)
                 THEN Part(3, <<>>, <<>>)
                 ELSE Part(0, <<>>, <<"Remove noindex directives">>)
        canonical == IF doc.canonical THEN Part(2, <<>>, <<>>)
                     ELSE Part(0, <<>>, <<"Add a canonical tag">>)
        title == IF HasTitle(doc) THEN Part(2, <<>>, <<>>)
                 ELSE Part(0, <<>>, <<"Add a title tag">>)
        total == Plus(Plus(Plus(status, index), canonical), title)
    IN  [title |-> "Crawlability",
         points |-> total.points,
         maxPoints |-> 10,
         pass |-> total.points >= 6,
         details |-> total.details,
         recommendations |-> total.recommendations]

(***************************************************************************)
(* Aggregation.                                                            *)
(***************************************************************************)

RECURSIVE SumOf(_, _)
SumOf(checks, field) ==
    IF checks = <<>> THEN 0
    ELSE Head(checks)[field] + SumOf(Tail(checks), field)

\* Math.round(x) for x = num / den >= 0: the nearest integer, halves up.
MathRound(num, den) == (2 * num + den) \div (2 * den)

NormalizedScoreNoScale(totalPoints, maxPossible) ==
    MathRound(totalPoints, maxPossible)

\* Math.round((totalPoints / maxPossible) * 100)
NormalizedScore(totalPoints, maxPossible) ==
    MathRound(totalPoints * 100, maxPossible)

PushedAlways(check) == check.recommendations

\* if (!check.pass) recommendations.push(...check.recommendations)
Pushed(check) == IF ~check.pass THEN check.recommendations ELSE <<>>

\* if (!schemaCheck.pass && !schemaCheck.isOptional) recommendations.push(...)
PushedSchema(check) ==
    IF ~check.pass /\ ~check.isOptional THEN check.recommendations ELSE <<>>

analyzeHTML(doc, url, statusCode, headers) ==
    LET pageType == detectPageType(doc, url)
        answerCheck == checkAnswerExtraction(doc)
        structureCheck == checkContentStructure(doc)
        schemaResult == checkSchemaPresence(doc, pageType)
        schemaCheck == schemaResult.val
        linkingCheck == checkInternalLinking(doc, url)
        crawlCheck == checkCrawlability(doc, statusCode, headers)
        checks == <<answerCheck, structureCheck, schemaCheck, linkingCheck,
                    crawlCheck>>
        totalPoints == answerCheck.points + structureCheck.points
                       + schemaCheck.points + linkingCheck.points
                       + crawlCheck.points
    IN  IF ~schemaResult.ok THEN Threw
        ELSE Ok([score |-> NormalizedScore(totalPoints, SumOf(checks, "maxPoints")),
                 checks |-> checks,
                 recommendations |->
                     Pushed(answerCheck) \o Pushed(structureCheck)
                     \o PushedSchema(schemaCheck) \o Pushed(linkingCheck)
                     \o Pushed(crawlCheck),
                 pageType |-> pageType])

runAnalysis(doc, url, statusCode, headers) ==
    LET answerCheck == checkAnswerExtractionV1(doc)
        structureCheck == checkContentStructureV1(doc)
        schemaResult == checkSchemaPresenceV1(doc)
        schemaCheck == schemaResult.val
        linkingCheck == checkInternalLinkingV1(doc, url)
        crawlCheck == checkCrawlabilityV1(doc, statusCode, headers)
        checks == <<answerCheck, structureCheck, schemaCheck, linkingCheck,
                    crawlCheck>>
        totalPoints == answerCheck.points + structureCheck.points
                       + schemaCheck.points + linkingCheck.points
                       + crawlCheck.points
    IN  IF ~schemaResult.ok THEN Threw
        ELSE Ok([score |-> NormalizedScore(totalPoints, SumOf(checks, "maxPoints")),
                 checks |-> checks,
                 recommendations |->
                     Pushed(answerCheck) \o Pushed(structureCheck)
                     \o Pushed(schemaCheck) \o Pushed(linkingCheck)
                     \o Pushed(crawlCheck)])

(***************************************************************************)
(* The explored pages.  A page is what the network returns for a           *)
(* requested URL: a fetch error, or a document with a status code and      *)
(* headers.                                                                *)
(***************************************************************************)

SeqsUpTo(S, n) == UNION {[1..k -> S] : k \in 0..n}

Text(core, pad) == [core |-> core, pad |-> pad]
P(text) == [tag |-> "P", text |-> text]
Div == [tag |-> "DIV", text |-> Text(<<>>, 0)]

Url(scheme, host, path, query) ==
    [scheme |-> scheme, host |-> host, path |-> path, query |-> query]

Site(path) == Url("https", "example.com", path, <<>>)

ContentUrl == Site(<<"/", "guide">>)
HomeUrl == Site(<<"/">>)
ArticleUrl == Site(<<"/", "blog", "/", "guide">>)
RecipeUrl == Site(<<"/", "recipe", "s">>)
ProductUrl == Site(<<"/", "product", "/", "guide">>)
FaqUrl == Site(<<"/", "faq">>)

PageTypeUrls == {ContentUrl, HomeUrl, ArticleUrl, RecipeUrl, ProductUrl, FaqUrl}

ClassifyPaths ==
    { <<>>, <<"/">>, <<"/", "index.html">>, <<"/", "home">>,
      <<"/", "home", "/">>, <<"/", "HOME">>,
      <<"/", "blog", "/", "guide">>, <<"/", "Blog", "/", "guide">>,
      <<"/", "blog">>, <<"/", "article", "/", "guide">>,
      <<"/", "post", "/", "guide">>, <<"/", "news", "/", "guide">>,
      <<"/", "blog", "/", "recipe">>, <<"/", "news", "/", "product">>,
      <<"/", "recipe", "/", "guide">>, <<"/", "recipe", "s">>,
      <<"/", "recipe", "/", "product">>, <<"/", "product", "/", "recipe">>,
      <<"/", "shop", "/", "recipe", "s">>, <<"/", "recipe", "/", "faq">>,
      <<"/", "product", "/", "guide">>, <<"/", "product", "s">>,
      <<"/", "shop", "/", "guide">>, <<"/", "shop">>,
      <<"/", "product", "/", "faq">>, <<"/", "shop", "/", "faq">>,
      <<"/", "faq">>, <<"/", "faq", "s">>, <<"/", "guide">> }

ClassifyUrls ==
    {Site(path) : path \in ClassifyPaths}
    \cup { Url("https", "example.com", <<"/">>, <<"?", "ref", "=", "/", "blog", "/">>),
           Url("https", "example.com", <<"/", "guide">>,
               <<"?", "ref", "=", "/", "blog", "/">>),
           Url("http", "Example.COM", <<"/", "guide">>,
               <<"?", "tag", "=", "/", "faq">>) }

H1Texts ==
    { <<"What", " ", "is", " ", "AEO", "?">>,
      <<"AEO", " ", "guide">>,
      <<"WHY", " ", "AEO">>,
      <<"AEO", " ", "guide", "?">>,
      <<"Some", "how">> }

H1s == {NoElement} \cup {Element(t) : t \in H1Texts}

ClassifyTexts ==
    { NoElement, Element(<<"AEO", " ", "guide">>),
      Element(<<"Best", " ", "Recipe", "s">>), Element(<<"FAQ">>) }

\* Paragraph cores, character by character.
CoreX == <<"x">>
CoreIsA == <<"x", " ", "i", "s", " ", "a", " ", "x">>
CoreIsAUpper == <<"x", " ", "I", "S", " ", "A", " ", "x">>
CoreAre == <<"x", " ", "a", "r", "e", " ", "x">>
CoreWare == <<"w", "a", "r", "e">>
CoreRefersTo ==
    <<"x", " ", "r", "e", "f", "e", "r", "s", " ", "t", "o", " ", "x">>
CoreMeans == <<"x", " ", "m", "e", "a", "n", "s", " ", "x">>
CoreMeansEnd == <<"x", " ", "m", "e", "a", "n", "s">>
CoreLeadingIsA == <<" ", "i", "s", " ", "a", " ", "x">>
CoreThis == <<"t", "h", "i", "s", " ", "a", "x">>
CoreBlank == <<" ", " ">>
CoreEmpty == <<>>

Cores ==
    { CoreX, CoreIsA, CoreIsAUpper, CoreAre, CoreWare, CoreRefersTo, CoreMeans,
      CoreMeansEnd, CoreLeadingIsA, CoreThis, CoreBlank, CoreEmpty }

BaseDoc ==
    [ title |-> Element(<<"AEO", " ", "guide">>),
      h1 |-> Element(<<"AEO", " ", "guide">>),
      before |-> <<>>,
      after |-> <<P(Text(CoreX, ShortPad))>>,
      h2s |-> 0, h3s |-> 0, lists |-> 0,
      scripts |-> <<>>,
      links |-> <<>>,
      robots |-> NoElement,
      canonical |-> TRUE,
      productItem |-> FALSE ]

NoHeaders == [xRobotsTag |-> NoElement]

Fetched(url, doc, statusCode, headers) ==
    [url |-> url, fetch |-> "ok", doc |-> doc, statusCode |-> statusCode,
     headers |-> headers]

\* Definition paragraphs of every length up to the bound.
LengthPages ==
    { Fetched(ContentUrl,
              [BaseDoc EXCEPT !.h1 = h1, !.after = <<P(Text(core, pad))>>],
              200, NoHeaders) :
        h1 \in {Element(<<"AEO", " ", "guide">>), Element(<<"What", " ", "is", " ", "AEO", "?">>)},
        core \in {CoreX, CoreIsA},
        pad \in 0..MaxPad }

\* Where the definition paragraph stands and what it says.
Bodies ==
    LET Ps == {P(Text(core, pad)) : core \in Cores, pad \in {0, ShortPad}}
    IN  {[before |-> <<>>, after |-> <<>>], [before |-> <<>>, after |-> <<Div>>]}
        \cup {[before |-> <<>>, after |-> <<p>>] : p \in Ps}
        \cup {[before |-> <<>>, after |-> <<Div, p>>] : p \in Ps}
        \cup {[before |-> <<>>, after |-> <<P(Text(CoreEmpty, 0)), p>>] : p \in Ps}
        \cup {[before |-> <<p>>, after |-> <<>>] : p \in Ps}
        \cup {[before |-> <<p>>, after |-> <<P(Text(CoreBlank, 0))>>] : p \in Ps}

DefinitionPages ==
    { Fetched(ContentUrl,
              [BaseDoc EXCEPT !.h1 = h1, !.before = body.before,
                              !.after = IF h1.present THEN body.after ELSE <<>>],
              200, NoHeaders) :
        h1 \in H1s, body \in Bodies }

ClassifyPages ==
    { Fetched(url,
              [BaseDoc EXCEPT !.title = title, !.h1 = h1, !.productItem = item],
              200, NoHeaders) :
        url \in ClassifyUrls, title \in ClassifyTexts, h1 \in ClassifyTexts,
        item \in BOOLEAN }

StructurePages ==
    { Fetched(ContentUrl,
              [BaseDoc EXCEPT !.h2s = h2, !.h3s = h3, !.lists = l],
              200, NoHeaders) :
        h2 \in 0..MaxH2, h3 \in 0..MaxH3, l \in 0..MaxLists }

TypeArticle == JStr(<<"Article">>)
TypeFaqPage == JStr(<<"FAQ", "Page">>)

\* Blocks that occur in every combination.
CoreBlocks ==
    { Block("invalid", JUndefined),
      Block("object", TypeArticle),
      Block("object", TypeFaqPage),
      Block("object", JStr(<<"Organization">>)),
      Block("object", JStr(<<"Recipe">>)),
      Block("object", JStr(<<"Product">>)),
      Block("object", JStr(<<"Thing">>)),
      Block("object", JNum("5")) }

\* Blocks that occur alone.
OtherBlocks ==
    { Block("null", JUndefined),
      Block("scalar", JUndefined),
      Block("array", JUndefined),
      Block("object", JUndefined),
      Block("object", JNull),
      Block("object", JStr(<<>>)),
      Block("object", JNum("0")),
      Block("object", JBool("true")),
      Block("object", JBool("false")),
      Block("object", JObj),
      Block("object", JStr(<<"News", "Article">>)),
      Block("object", JStr(<<"Blog", "Posting">>)),
      Block("object", JStr(<<"WebSite">>)),
      Block("object", JStr(<<"article">>)),
      Block("object", JArr(<<>>)),
      Block("object", JArr(<<TypeArticle, TypeFaqPage>>)),
      Block("object", JArr(<<TypeArticle, TypeArticle>>)),
      Block("object", JArr(<<JNull>>)),
      Block("object", JArr(<<JArr(<<TypeArticle>>)>>)) }

SchemaPages ==
    { Fetched(url, [BaseDoc EXCEPT !.scripts = scripts], 200, NoHeaders) :
        url \in PageTypeUrls,
        scripts \in SeqsUpTo(CoreBlocks, MaxBlocks)
                    \cup {<<b>> : b \in OtherBlocks} }

Hrefs ==
    { Href("empty", ""), Href("relative", ""), Href("absolute", "Example.com"),
      Href("absolute", "other.org"), Href("mailto", ""), Href("malformed", "") }

LinkPages ==
    { Fetched(ContentUrl, [BaseDoc EXCEPT !.links = links], 200, NoHeaders) :
        links \in SeqsUpTo(Hrefs, MaxLinks) }
    \cup
    { Fetched(Url("http", "Example.COM", <<>>, <<>>),
              [BaseDoc EXCEPT !.links = links], 200, NoHeaders) :
        links \in SeqsUpTo({Href("absolute", "example.com"),
                            Href("absolute", "other.org")}, MaxLinks) }

StatusCodes == {200, 301, 404, 500}

RobotsTexts ==
    { NoElement, Element(<<>>), Element(<<"noindex">>),
      Element(<<"NOINDEX", ",", "nofollow">>), Element(<<"index", ",", "follow">>) }

TitleElements ==
    { NoElement, Element(<<>>), Element(<<" ">>), Element(<<"AEO", " ", "guide">>) }

CrawlPages ==
    { Fetched(ContentUrl,
              [BaseDoc EXCEPT !.robots = meta, !.canonical = canonical,
                              !.title = title],
              statusCode, [xRobotsTag |-> header]) :
        meta \in RobotsTexts, canonical \in BOOLEAN, title \in TitleElements,
        statusCode \in StatusCodes,
        header \in {NoElement, Element(<<"noindex">>), Element(<<"nofollow">>)} }

\* Pages on which the five checks vary together.
MixedPages ==
    { Fetched(url,
              [BaseDoc EXCEPT !.h1 = h1, !.after = <<P(Text(CoreIsA, pad))>>,
                              !.h2s = h2, !.lists = h2,
                              !.scripts = scripts, !.links = links,
                              !.canonical = good, !.title = IF good THEN @ ELSE NoElement],
              IF good THEN 200 ELSE 404, NoHeaders) :
        url \in {HomeUrl, ArticleUrl, RecipeUrl, ContentUrl},
        h1 \in {NoElement, Element(<<"What", " ", "is", " ", "AEO", "?">>)},
        pad \in {ShortPad, MaxPad},
        h2 \in {0, 1, 2},
        scripts \in {<<>>, <<Block("object", TypeArticle)>>,
                     <<Block("object", JStr(<<"Thing">>))>>},
        links \in {<<>>, <<Href("relative", "")>>,
                   <<Href("relative", ""), Href("relative", ""),
                     Href("relative", ""), Href("absolute", "other.org")>>},
        good \in BOOLEAN }

\* Requests the routes themselves answer, without an analysis.
FailingPages ==
    { [url |-> Url("ftp", "example.com", <<"/">>, <<>>), fetch |-> "ok",
       doc |-> BaseDoc, statusCode |-> 200, headers |-> NoHeaders],
      [url |-> ContentUrl, fetch |-> "error",
       doc |-> BaseDoc, statusCode |-> 200, headers |-> NoHeaders] }

Pages ==
    LengthPages \cup DefinitionPages \cup ClassifyPages \cup StructurePages
    \cup SchemaPages \cup LinkPages \cup CrawlPages \cup MixedPages
    \cup FailingPages

(***************************************************************************)
(* The routes.  Each request is answered on its own: the server keeps no   *)
(* state between requests.                                                 *)
(***************************************************************************)

Response(status, body) == [status |-> status, body |-> body]

NoResponse == Response(0, <<>>)

ErrorBody(message) == [error |-> message]

\* POST /api/analyze
analyzeRoute(p) ==
    IF ~ValidUrl(p.url) THEN Response(400, ErrorBody("Valid URL required"))
    ELSE IF p.fetch = "error" THEN Response(500, ErrorBody("Failed to analyze URL"))
    ELSE LET result == analyzeHTML(p.doc, p.url, p.statusCode, p.headers)
         IN  IF result.ok THEN Response(200, result.val)
             ELSE Response(500, ErrorBody(result.val))

\* POST /api/fetch
fetchRoute(p) ==
    IF ~ValidUrl(p.url) THEN Response(400, ErrorBody("Valid URL required"))
    ELSE IF p.fetch = "error" THEN Response(500, ErrorBody("Failed to fetch URL"))
    ELSE LET analysis == runAnalysis(p.doc, p.url, p.statusCode, p.headers)
         IN  IF analysis.ok
             THEN Response(200, [score |-> analysis.val.score,
                                 checks |-> analysis.val.checks,
                                 recommendations |-> analysis.val.recommendations,
                                 html |-> p.doc,
                                 statusCode |-> p.statusCode,
                                 headers |-> p.headers,
                                 finalUrl |-> p.url])
             ELSE Response(500, ErrorBody(analysis.val))

Init ==
    /\ page \in Pages
    /\ route = "none"
    /\ resp = NoResponse

PostAnalyze ==
    /\ route' = "analyze"
    /\ resp' = analyzeRoute(page)
    /\ UNCHANGED page

PostFetch ==
    /\ route' = "fetch"
    /\ resp' = fetchRoute(page)
    /\ UNCHANGED page

Next == PostAnalyze \/ PostFetch

Spec == Init /\ [][Next]_vars

(***************************************************************************)
(* Properties.                                                             *)
(***************************************************************************)

\* The request was answered with an analysis.
Answered == route # "none" /\ resp.status = 200
Lenient == route = "analyze" /\ resp.status = 200
Strict == route = "fetch" /\ resp.status = 200

CheckTitles ==
    <<"Answer Extraction", "Content Structure", "Schema Markup",
      "Internal Linking", "Crawlability">>

IsOptional(check) == "isOptional" \in DOMAIN check /\ check.isOptional

\* C1: every analysis that is returned carries an integer score between 0
\* and 100 that is 100 * (sum of the checks' points) / (sum of their
\* maxPoints) rounded to the nearest integer, halves up.
ScoreIsNormalizedRatio ==
    Answered =>
        LET points == SumOf(resp.body.checks, "points")
            maxPoints == SumOf(resp.body.checks, "maxPoints")
            score == resp.body.score
        IN  /\ score \in 0..100
            /\ Len(resp.body.checks) = 5
            /\ 2 * score * maxPoints <= 200 * points + maxPoints
            /\ 200 * points + maxPoints < 2 * (score + 1) * maxPoints

ScoreWitness ==
    /\ Lenient
    /\ resp.body.score = 77
    /\ \E i \in 1..5 : ~resp.body.checks[i].pass

\* C2: every check of a returned analysis has 0 <= points <= maxPoints,
\* the schema top-up and the answer bonuses included.
PointsWithinMax ==
    Answered =>
        \A i \in 1..Len(resp.body.checks) :
            /\ resp.body.checks[i].points >= 0
            /\ resp.body.checks[i].points <= resp.body.checks[i].maxPoints

\* Every answer bonus was earned and the top-up was added (article page
\* with a foreign schema type: 5 + 5 + 5).
PointsWitness ==
    /\ Lenient
    /\ resp.body.pageType = "article"
    /\ resp.body.checks[1].points = 30
    /\ resp.body.checks[3].points = 15
    /\ CollectSchemas(page.doc) = <<JStr(<<"Thing">>)>>

\* C3 (as claimed): for any document and well-formed http(s) URL that was
\* fetched, the analysis returns a complete result with the five checks in
\* order.
AnalysisNeverFails ==
    (route # "none" /\ ValidUrl(page.url) /\ page.fetch = "ok") =>
        /\ resp.status = 200
        /\ Len(resp.body.checks) = 5
        /\ \A i \in 1..5 : resp.body.checks[i].title = CheckTitles[i]

RECURSIVE ExpectedRecommendations(_)
ExpectedRecommendations(checks) ==
    IF checks = <<>> THEN <<>>
    ELSE (IF ~Head(checks).pass /\ ~IsOptional(Head(checks))
          THEN Head(checks).recommendations ELSE <<>>)
         \o ExpectedRecommendations(Tail(checks))

\* C4: the aggregated recommendations are the concatenation, in check
\* order, of the recommendations of the checks that fail and are not
\* optional.
RecommendationsAreFailingChecks ==
    Answered =>
        resp.body.recommendations = ExpectedRecommendations(resp.body.checks)

\* A failing check contributes and a passing check that has a
\* recommendation of its own (one internal link) does not.
RecommendationsWitness ==
    /\ Lenient
    /\ ~resp.body.checks[2].pass
    /\ resp.body.checks[2].recommendations # <<>>
    /\ resp.body.checks[4].pass
    /\ resp.body.checks[4].recommendations # <<>>
    /\ resp.body.recommendations # <<>>

SchemaRecommendations ==
    { "Add Article or BlogPosting schema for better AEO",
      "Add Recipe schema for recipe content",
      "Add Product schema for better visibility",
      "Consider adding relevant schema markup (Article, HowTo, FAQ, etc.)" }

HomepageWithoutSchema ==
    /\ Lenient
    /\ Pathname(page.url) = <<"/">>
    /\ page.doc.scripts = <<>>

\* C5: on a homepage ("/") without any structured data the schema check is
\* optional, gets at least 15 of 25 points, and no schema recommendation is
\* in the aggregated list.
HomepageSchemaIsOptional ==
    HomepageWithoutSchema =>
        /\ resp.body.checks[3].isOptional
        /\ resp.body.checks[3].maxPoints = 25
        /\ resp.body.checks[3].points >= 15
        /\ \A i \in 1..Len(resp.body.recommendations) :
               resp.body.recommendations[i] \notin SchemaRecommendations

HomepageWitness ==
    /\ HomepageWithoutSchema
    /\ resp.body.pageType = "homepage"
    /\ resp.body.recommendations # <<>>

PageTypes == <<"homepage", "article", "recipe", "product", "faq">>

\* Whether the rule of a page type matches the page.
RuleMatches(type, doc, url) ==
    LET urlLower == toLowerCase(UrlString(url))
        title == LowerTextOrEmpty(doc.title)
        h1 == LowerTextOrEmpty(doc.h1)
    IN  CASE type = "homepage" -> IsHomepagePath(Pathname(url))
          [] type = "article" -> IsArticleUrl(urlLower)
          [] type = "recipe" -> IsRecipePage(urlLower, title, h1)
          [] type = "product" -> IsProductPage(urlLower, doc)
          [] type = "faq" -> IsFaqPage(urlLower, title, h1)

MatchingRules == {i \in 1..5 : RuleMatches(PageTypes[i], page.doc, page.url)}

\* C6: the page type is that of the first matching rule in the order
\* homepage, article, recipe, product, faq, and content when none matches.
FirstMatchingRuleWins ==
    Lenient =>
        /\ \A i \in MatchingRules :
               (\A j \in MatchingRules : i <= j) => resp.body.pageType = PageTypes[i]
        /\ MatchingRules = {} <=> resp.body.pageType = "content"

\* A URL with /recipe and /product is a recipe page.
PrecedenceWitness ==
    /\ Lenient
    /\ {3, 4} \subseteq MatchingRules
    /\ includes(UrlString(page.url), <<"/", "product">>)
    /\ includes(UrlString(page.url), <<"/", "recipe">>)
    /\ resp.body.pageType = "recipe"

Crawl == resp.body.checks[5]

NoindexSignal == MetaNoindex(page.doc) \/ HeaderNoindex(page.headers)

\* The Crawlability sub-checks the page fails.
FailedSubChecks ==
    {c \in {"status", "noindex", "canonical", "title"} :
        \/ c = "status" /\ page.statusCode # 200
        \/ c = "noindex" /\ NoindexSignal
        \/ c = "canonical" /\ ~page.doc.canonical
        \/ c = "title" /\ ~HasTitle(page.doc)}

\* C7 (as claimed): Crawlability scores four sub-checks, each failure
\* withholding points and adding its own recommendation; a noindex signal
\* in particular leaves the check short of its maximum.
CrawlabilityHasFourSubChecks ==
    Lenient =>
        /\ Len(Crawl.recommendations) = Cardinality(FailedSubChecks)
        /\ NoindexSignal => Crawl.points < Crawl.maxPoints

Linking == resp.body.checks[4]

\* The links whose href resolves to the hostname of the page.
SameHostLinks ==
    {i \in 1..Len(page.doc.links) :
        ResolvedHostname(page.doc.links[i], page.url) = Hostname(page.url)}

NonEmptySameHostLinks ==
    {i \in SameHostLinks : page.doc.links[i].kind # "empty"}

\* C8 (as claimed): the links that resolve to the page's hostname are
\* counted; three or more give 10 of 10 and pass, one or two partial credit
\* and a recommendation, none minimal credit and a recommendation.
LinkingCountsSameHostLinks ==
    Lenient =>
        LET n == Cardinality(SameHostLinks)
        IN  /\ n >= 3 => /\ Linking.points = 10
                         /\ Linking.maxPoints = 10
                         /\ Linking.pass
            /\ n \in 1..2 => /\ Linking.points > 0
                             /\ Linking.points < Linking.maxPoints
                             /\ Linking.recommendations # <<>>
            /\ n = 0 => /\ Linking.points < Linking.maxPoints
                        /\ Linking.recommendations # <<>>

\* C8 (amended): the lenient engine counts the links with a non-empty href
\* that resolves to the page's hostname and gives 10, 7 or 3 of 10 points
\* for three or more, one or two, and no such link; the strict engine counts
\* empty hrefs too and gives 6, 3 or 0 of 10.  Each tier below the top one
\* carries one recommendation.
LinkingTiers ==
    /\ Lenient =>
        LET n == Cardinality(NonEmptySameHostLinks)
        IN  /\ Linking.maxPoints = 10
            /\ n >= 3 => /\ Linking.points = 10
                         /\ Linking.pass
                         /\ Linking.recommendations = <<>>
            /\ n \in 1..2 => /\ Linking.points = 7
                             /\ Linking.pass
                             /\ Len(Linking.recommendations) = 1
            /\ n = 0 => /\ Linking.points = 3
                        /\ ~Linking.pass
                        /\ Len(Linking.recommendations) = 1
    /\ Strict =>
        LET n == Cardinality(SameHostLinks)
        IN  /\ Linking.maxPoints = 10
            /\ n >= 3 => /\ Linking.points = 6
                         /\ Linking.pass
                         /\ Linking.recommendations = <<>>
            /\ n \in 1..2 => /\ Linking.points = 3
                             /\ ~Linking.pass
                             /\ Len(Linking.recommendations) = 1
            /\ n = 0 => /\ Linking.points = 0
                        /\ ~Linking.pass
                        /\ Len(Linking.recommendations) = 1

\* Three internal links and one external link: 3 are counted, full credit.
LinkingWitness ==
    /\ Lenient
    /\ Len(page.doc.links) = 4
    /\ Cardinality(NonEmptySameHostLinks) = 3
    /\ \E i \in 1..4 : page.doc.links[i] = Href("absolute", "other.org")
    /\ Linking.points = 10

Answer == resp.body.checks[1]

\* The H1 is present and its first sibling is the definition paragraph.
DefinitionFollowsH1 ==
    /\ page.doc.h1.present
    /\ Len(page.doc.after) >= 1
    /\ page.doc.after[1].tag = "P"
    /\ TextLength(TrimText(page.doc.after[1].text)) > 0

DefinitionLength == TextLength(TrimText(page.doc.after[1].text))

\* The page with its definition paragraph padded to `pad` filler characters.
WithPad(doc, pad) == [doc EXCEPT !.after[1].text.pad = pad]

AnswerOf(doc) ==
    IF route = "analyze" THEN checkAnswerExtraction(doc)
    ELSE checkAnswerExtractionV1(doc)

Threshold == IF route = "analyze" THEN ShortThreshold ELSE ShortThresholdV1

\* C9: a definition paragraph of exactly the short threshold gets the
\* credit of the shortest paragraphs and no recommendation; one character
\* more gets strictly less and a recommendation; the credit never grows
\* with the length.
LengthCreditTiers ==
    (Answered /\ DefinitionFollowsH1) =>
        LET doc == page.doc
            pad == doc.after[1].text.pad
            longer == WithPad(doc, pad + 1)
            oneMore == TextLength(TrimText(longer.after[1].text))
                       = DefinitionLength + 1
        IN  /\ AnswerOf(longer).points <= Answer.points
            /\ (DefinitionLength = Threshold /\ oneMore) =>
                   /\ Answer.recommendations = <<>>
                   /\ Answer.points = AnswerOf(WithPad(doc, 1)).points
                   /\ AnswerOf(longer).points < Answer.points
                   /\ AnswerOf(longer).recommendations # <<>>
            /\ (DefinitionLength = Threshold + 1) =>
                   /\ Answer.recommendations # <<>>
                   /\ Answer.points < AnswerOf(WithPad(doc, 1)).points

LengthWitness ==
    /\ Lenient
    /\ DefinitionFollowsH1
    /\ DefinitionLength = ShortThreshold
    /\ Answer.points = 20

QuestionH1 == page.doc.h1.present /\ IsQuestion(toLowerCase(page.doc.h1.text))

DefinitionLower == TextLower(TrimText(page.doc.after[1].text))

\* The definition holds "is a", "are", "refers to" or "means" anywhere.
HoldsPatternText ==
    \/ TextIncludes(DefinitionLower, <<"i", "s", " ", "a">>)
    \/ TextIncludes(DefinitionLower, <<"a", "r", "e">>)
    \/ TextIncludes(DefinitionLower, <<"r", "e", "f", "e", "r", "s", " ", "t", "o">>)
    \/ TextIncludes(DefinitionLower, <<"m", "e", "a", "n", "s">>)

\* The definition holds one of them as words, a space on either side.
HoldsPatternWords ==
    \/ TextIncludes(DefinitionLower, <<" ", "i", "s", " ", "a", " ">>)
    \/ TextIncludes(DefinitionLower, <<" ", "a", "r", "e", " ">>)
    \/ TextIncludes(DefinitionLower,
           <<" ", "r", "e", "f", "e", "r", "s", " ", "t", "o", " ">>)
    \/ TextIncludes(DefinitionLower, <<" ", "m", "e", "a", "n", "s", " ">>)

FullAnswer ==
    /\ Answer.points = 30
    /\ Answer.maxPoints = 30
    /\ Answer.pass
    /\ Answer.recommendations = <<>>

\* C10 (as claimed): a question H1 followed by a short definition that
\* contains an explanatory pattern earns all four components, 30 of 30.
PatternTextEarnsFullAnswer ==
    (Lenient /\ QuestionH1 /\ DefinitionFollowsH1
     /\ DefinitionLength <= ShortThreshold /\ HoldsPatternText) => FullAnswer

\* C10 (amended): it does when the trimmed definition holds the pattern as
\* space-delimited words (" is a ", " are ", " refers to ", " means ").
PatternWordsEarnFullAnswer ==
    (Lenient /\ QuestionH1 /\ DefinitionFollowsH1
     /\ DefinitionLength <= ShortThreshold /\ HoldsPatternWords) => FullAnswer

\* "What is AEO?" followed by 80 characters that hold " is a ".
FullAnswerWitness ==
    /\ Lenient
    /\ page.doc.h1.text = <<"What", " ", "is", " ", "AEO", "?">>
    /\ DefinitionFollowsH1
    /\ DefinitionLength = 80
    /\ HoldsPatternWords
    /\ FullAnswer

Structure == resp.body.checks[2]

StructureOf(doc) ==
    IF route = "analyze" THEN checkContentStructure(doc)
    ELSE checkContentStructureV1(doc)

HeadingRecommendations ==
    { "Add more H2 sections to improve content structure (aim for 3+)",
      "Break content into clear H2 sections for better AI comprehension",
      "Add more H2 sections",
      "Break content into H2 sections" }

ListRecommendations ==
    { "Add bulleted or numbered lists to improve scanability" }

\* The recommendations of the structure check that are about headings.
HeadingAdvice ==
    SelectSeq(Structure.recommendations, LAMBDA r : r \in HeadingRecommendations)

\* C11 (as claimed): without any H2 and any list the structure check earns
\* no heading and no list credit, fails, and recommends exactly two things:
\* headings, then lists.
NoSectionsTwoRecommendations ==
    (Answered /\ page.doc.h2s = 0 /\ page.doc.lists = 0) =>
        /\ ~Structure.pass
        /\ \A h \in 0..MaxH2, l \in 0..MaxLists :
               Structure.points
                   <= StructureOf([page.doc EXCEPT !.h2s = h, !.lists = l]).points
        /\ Len(Structure.recommendations) = 2
        /\ Structure.recommendations[1] \in HeadingRecommendations
        /\ Structure.recommendations[2] \in ListRecommendations

\* The credit the H2 headings earn: what the check loses without them.
HeadingCredit ==
    Structure.points - StructureOf([page.doc EXCEPT !.h2s = 0]).points

\* C12 (as claimed): four or more H2s earn the high credit without a
\* recommendation, two or three a medium credit with one, a single H2 a low
\* credit with one, none no credit with one; the credit never shrinks as
\* the H2s grow in number.
HeadingTiersAsClaimed ==
    Answered =>
        LET h == page.doc.h2s
            high == StructureOf([page.doc EXCEPT !.h2s = MaxH2]).points
                    - StructureOf([page.doc EXCEPT !.h2s = 0]).points
        IN  /\ h >= 4 => HeadingCredit = high /\ HeadingAdvice = <<>>
            /\ (h >= 2 /\ h < 4) =>
                   /\ HeadingCredit > 0 /\ HeadingCredit < high
                   /\ Len(HeadingAdvice) = 1
            /\ h = 1 =>
                   /\ HeadingCredit > 0 /\ HeadingCredit < high
                   /\ Len(HeadingAdvice) = 1
            /\ h = 0 => HeadingCredit = 0 /\ Len(HeadingAdvice) = 1
            /\ StructureOf([page.doc EXCEPT !.h2s = h + 1]).points
                   >= Structure.points

\* C12 (amended): the lenient engine gives 15 for three or more H2s and 10
\* for two, both without a recommendation, 5 for one and 0 for none, both
\* with a recommendation; the strict engine gives 12 for four or more
\* without a recommendation, 6 for two or three and 0 for fewer, both with
\* a recommendation.  In both the credit never shrinks as the H2s grow.
HeadingTiers ==
    /\ Lenient =>
        LET h == page.doc.h2s
        IN  /\ h >= 3 => HeadingCredit = 15 /\ HeadingAdvice = <<>>
            /\ h = 2 => HeadingCredit = 10 /\ HeadingAdvice = <<>>
            /\ h = 1 => HeadingCredit = 5 /\ Len(HeadingAdvice) = 1
            /\ h = 0 => HeadingCredit = 0 /\ Len(HeadingAdvice) = 1
    /\ Strict =>
        LET h == page.doc.h2s
        IN  /\ h >= 4 => HeadingCredit = 12 /\ HeadingAdvice = <<>>
            /\ h \in 2..3 => HeadingCredit = 6 /\ Len(HeadingAdvice) = 1
            /\ h <= 1 => HeadingCredit = 0 /\ Len(HeadingAdvice) = 1
    /\ Answered =>
        StructureOf([page.doc EXCEPT !.h2s = @ + 1]).points >= Structure.points

\* Three H2s: the top tier of the lenient engine, no heading recommendation.
HeadingWitness ==
    /\ Lenient
    /\ page.doc.h2s = 3
    /\ HeadingCredit = 15
    /\ Structure.recommendations # <<>>

Schema == resp.body.checks[3]

\* A schema type was collected from the structured data of the page.
SchemaTypeFound == CollectSchemas(page.doc) # <<>>

\* The schema points of the same page type without any structured data.
PointsWithoutSchema ==
    checkSchemaPresence([page.doc EXCEPT !.scripts = <<>>],
                        resp.body.pageType).val.points

FailingChecksRecommend ==
    Lenient =>
        \A i \in 1..Len(resp.body.checks) :
            (~resp.body.checks[i].pass /\ ~IsOptional(resp.body.checks[i]))
                => resp.body.checks[i].recommendations # <<>>

====
